---- MODULE Spec2Model ----
(***************************************************************************)
(* qnnpack::qnnpackDeConv (deconv-run.cc): one call of the quantized       *)
(* transposed-convolution run path, as a state machine.  The call is       *)
(* sequential up to the thread-pool dispatch; the tiles of the dispatch    *)
(* are run by pool workers in any order.                                   *)
(***************************************************************************)
EXTENDS Integers, Sequences, FiniteSets, TLC

(***************************************************************************)
(* Bounds of the explored input space.                                     *)
(***************************************************************************)
MaxBatch == 2
MaxGroups == 2
MaxIn == 2
MaxKernel == 2
MaxStride == 2
MaxPad == 1
MaxGOC == 3
MaxOut == 5
MaxGIC == 9
MaxWide == 8
MaxTiles == 5
NumWorkers == 2

NULL == "NULL"
Blocks == {"op", "zero", "indir"}

Min(a, b) == IF a < b THEN a ELSE b

(***************************************************************************)
(* float: IEEE-754 binary32 restricted to NaN, +-inf, +-0 and the powers   *)
(* of two s * 2^e, -149 <= e <= 127 (e < -126 is subnormal).  Products and *)
(* quotients of powers of two are exact up to overflow (to infinity) and   *)
(* underflow (2^-150 and below round to zero).                             *)
(***************************************************************************)
F_NaN == [k |-> "nan", s |-> 1, e |-> 0]
F_Inf(s) == [k |-> "inf", s |-> s, e |-> 0]
F_Zero(s) == [k |-> "zero", s |-> s, e |-> 0]
F_Pow(s, e) == [k |-> "pow", s |-> s, e |-> e]

FRound(s, e) ==
    IF e > 127 THEN F_Inf(s)
    ELSE IF e < -149 THEN F_Zero(s)
    ELSE F_Pow(s, e)

FMul(a, b) ==
    CASE a.k = "nan" \/ b.k = "nan" -> F_NaN
      [] (a.k = "inf" /\ b.k = "zero") \/ (a.k = "zero" /\ b.k = "inf") -> F_NaN
      [] a.k = "inf" \/ b.k = "inf" -> F_Inf(a.s * b.s)
      [] a.k = "zero" \/ b.k = "zero" -> F_Zero(a.s * b.s)
      [] OTHER -> FRound(a.s * b.s, a.e + b.e)

FDiv(a, b) ==
    CASE a.k = "nan" \/ b.k = "nan" -> F_NaN
      [] (a.k = "inf" /\ b.k = "inf") \/ (a.k = "zero" /\ b.k = "zero") -> F_NaN
      [] a.k = "inf" -> F_Inf(a.s * b.s)
      [] b.k = "inf" -> F_Zero(a.s * b.s)
      [] b.k = "zero" -> F_Inf(a.s * b.s)
      [] a.k = "zero" -> F_Zero(a.s * b.s)
      [] OTHER -> FRound(a.s * b.s, a.e - b.e)

\* x <= 0.0f (false for NaN)
FLeqZero(x) == x.k = "zero" \/ (x.k \in {"inf", "pow"} /\ x.s = -1)

\* std::isnormal(x)
IsNormal(x) == x.k = "pow" /\ x.e >= -126

\* scale <= 0.0f, without the isnormal test
ScaleRejectedNoNormalTest(x) == FLeqZero(x)

\* the test of lines 41 and 49: scale <= 0.0f || !std::isnormal(scale)
ScaleRejected(x) == FLeqZero(x) \/ ~IsNormal(x)

(***************************************************************************)
(* size_t: a 64-bit unsigned integer as four 16-bit limbs, least           *)
(* significant first.  uint32_t operands are zero-extended to size_t by    *)
(* the usual arithmetic conversions.                                       *)
(***************************************************************************)
Limb == 2^16

SzFromNat(n) == <<n % Limb, (n \div Limb) % Limb, 0, 0>>

SzIsNat(v) == v[3] = 0 /\ v[4] = 0 /\ v[2] < 2^14

SzToNat(v) == v[1] + Limb * v[2]

\* 2^32 + j
SzWide(j) == <<j % Limb, (j \div Limb) % Limb, 1, 0>>

\* a + b modulo 2^64
SzAdd(a, b) ==
    LET s1 == a[1] + b[1]
        s2 == a[2] + b[2] + (s1 \div Limb)
        s3 == a[3] + b[3] + (s2 \div Limb)
        s4 == a[4] + b[4] + (s3 \div Limb)
    IN  <<s1 % Limb, s2 % Limb, s3 % Limb, s4 % Limb>>

RECURSIVE BitAnd(_, _, _)
BitAnd(x, y, n) ==
    IF n = 0 THEN 0
    ELSE (x % 2) * (y % 2) + 2 * BitAnd(x \div 2, y \div 2, n - 1)

SzAnd(a, b) == [i \in 1..4 |-> BitAnd(a[i], b[i], 16)]

\* a < n for a small natural n
SzLessNat(a, n) == a[2] = 0 /\ a[3] = 0 /\ a[4] = 0 /\ a[1] < n

\* -k for a uint32_t k, 1 <= k < 2^16, zero-extended to size_t: 2^32 - k
U32NegToSz(k) == <<Limb - k, Limb - 1, 0, 0>>

\* line 63: (group_input_channels + (kr - 1)) & -kr, kr a uint32_t
KStride(gic, kr) == SzAnd(SzAdd(gic, SzFromNat(kr - 1)), U32NegToSz(kr))

\* lines 81-86
ZeroSize(gic, kr) ==
    IF SzLessNat(gic, 8) THEN SzAdd(KStride(gic, kr), SzFromNat(8))
    ELSE KStride(gic, kr)

ZeroOffset(gic) == IF SzLessNat(gic, 8) THEN 8 ELSE 0

\* round_up(n, q) of qnnpack/math.h
RoundUp(n, q) == ((n + q - 1) \div q) * q

(***************************************************************************)
(* Geometry.                                                               *)
(***************************************************************************)
\* conv_param_t::compute_output_dims for a transposed convolution, one axis
OutDim(inp, stride, padBegin, padEnd, dil, kernel, adj) ==
    (inp - 1) * stride - (padBegin + padEnd) + dil * (kernel - 1) + adj + 1

OutputWidth(a) ==
    OutDim(a.input_width, a.p.stride_dims[1], a.p.padding[2], a.p.padding[4],
           a.p.dilation[1], a.p.kernel_dims[1], a.p.adjustment_dims[1])

OutputHeight(a) ==
    OutDim(a.input_height, a.p.stride_dims[2], a.p.padding[1], a.p.padding[3],
           a.p.dilation[2], a.p.kernel_dims[2], a.p.adjustment_dims[2])

KernelSize(a) == a.p.kernel_dims[2] * a.p.kernel_dims[1]

OutputSize(a) == OutputHeight(a) * OutputWidth(a)

TiledOutputSize(a) == RoundUp(OutputSize(a), a.q8.mr)

\* entries requested with the tile rounding left out
IndirectionEntriesUntiled(a) ==
    a.batch_size * a.p.groups * OutputSize(a) * KernelSize(a)

\* lines 141-142: indirection_buffer_size / sizeof(void* )
IndirectionEntries(a) ==
    a.batch_size * a.p.groups * TiledOutputSize(a) * KernelSize(a)

(***************************************************************************)
(* Inputs of one call.                                                     *)
(***************************************************************************)
Q8ConvParams ==
    { [mr |-> 4, nr |-> 4, kr |-> 2],
      [mr |-> 4, nr |-> 8, kr |-> 1],
      [mr |-> 8, nr |-> 8, kr |-> 1],
      [mr |-> 2, nr |-> 2, kr |-> 8] }

SmallTile == [mr |-> 2, nr |-> 2, kr |-> 8]

F_One == F_Pow(1, 0)

ScaleVals ==
    { F_NaN, F_Inf(1), F_Zero(1), F_Pow(-1, 0), F_Pow(1, -149),
      F_Pow(1, -126), F_One, F_Pow(1, 127) }

KernelScaleVals == { F_NaN, F_Zero(1), F_Pow(-1, 0), F_One, F_Pow(1, 1) }

ConvParam(kw, kh, stride, pad, groups, gic, goc, kscale) ==
    [ kernel_dims |-> <<kw, kh>>,
      stride_dims |-> <<stride, stride>>,
      dilation |-> <<1, 1>>,
      padding |-> <<pad, pad, pad, pad>>,
      adjustment_dims |-> <<0, 0>>,
      groups |-> groups,
      output_channels |-> groups * goc,
      group_input_channels |-> gic,
      group_output_channels |-> goc,
      kernel_zero_point |-> 128,
      kernel_scale |-> kscale,
      output_min |-> 0,
      output_max |-> 255 ]

Call(bs, ih, iw, iscale, izp, oscale, p, q8) ==
    [ batch_size |-> bs,
      input_height |-> ih,
      input_width |-> iw,
      input_scale |-> iscale,
      input_zero_point |-> izp,
      output_scale |-> oscale,
      output_zero_point |-> 128,
      p |-> p,
      q8 |-> q8 ]

\* every combination of scales, on the smallest geometry
ScaleCalls ==
    { Call(bs, 1, 1, si, 128, so,
           ConvParam(1, 1, 1, 0, 1, SzFromNat(1), 1, sk), SmallTile) :
        bs \in 0..1, si \in ScaleVals, so \in ScaleVals, sk \in KernelScaleVals }

\* 1 x iw inputs under a 1 x 1 kernel: the dispatch space varies
DispatchCalls ==
    { Call(bs, 1, iw, F_One, 128, F_One,
           ConvParam(1, 1, 1, 0, g, SzFromNat(8), goc, F_One), q8) :
        bs \in 0..MaxBatch, iw \in 1..MaxOut, g \in 1..MaxGroups,
        goc \in 1..MaxGOC, q8 \in Q8ConvParams }

\* kernel, stride and padding vary: the indirection table varies
GeometryCalls ==
    { Call(bs, d[1], d[2], F_One, 128, F_One,
           ConvParam(k[1], k[2], s, pad, g, SzFromNat(8), 1, F_One), SmallTile) :
        bs \in 1..MaxBatch, d \in (1..MaxIn) \X (1..MaxIn),
        k \in (1..MaxKernel) \X (1..MaxKernel), s \in 1..MaxStride,
        pad \in 0..MaxPad, g \in 1..MaxGroups }

\* the channel count varies, up to and beyond 2^32
ChannelCalls ==
    { Call(1, 1, 1, F_One, izp, F_One,
           ConvParam(1, 1, 1, 0, 1, gic, 1, F_One), q8) :
        izp \in {0, 128, 255},
        gic \in {SzFromNat(n) : n \in 1..MaxGIC} \cup {SzWide(j) : j \in 0..MaxWide},
        q8 \in Q8ConvParams }

\* pthreadpool_compute_4d_tiled: the tiles of a 4-d range
Tiles4D(r) ==
    { [ i |-> i, j |-> j, k |-> k, l |-> l,
        ti |-> Min(r.tile_i, r.range_i - i), tj |-> Min(r.tile_j, r.range_j - j),
        tk |-> Min(r.tile_k, r.range_k - k), tl |-> Min(r.tile_l, r.range_l - l) ] :
        i \in {x \in 0..(r.range_i - 1) : x % r.tile_i = 0},
        j \in {x \in 0..(r.range_j - 1) : x % r.tile_j = 0},
        k \in {x \in 0..(r.range_k - 1) : x % r.tile_k = 0},
        l \in {x \in 0..(r.range_l - 1) : x % r.tile_l = 0} }

\* the dispatch covering one batch element only
DispatchArgsOneImage(a) ==
    [ range_i |-> a.p.groups, range_j |-> 1,
      range_k |-> OutputSize(a), range_l |-> a.p.group_output_channels,
      tile_i |-> 1, tile_j |-> 1, tile_k |-> a.q8.mr, tile_l |-> a.q8.nr ]

\* lines 187-198: the range and tile arguments of pthreadpool_compute_4d_tiled
DispatchArgs(a) ==
    [ range_i |-> a.p.groups, range_j |-> a.batch_size,
      range_k |-> OutputSize(a), range_l |-> a.p.group_output_channels,
      tile_i |-> 1, tile_j |-> 1, tile_k |-> a.q8.mr, tile_l |-> a.q8.nr ]

ValidGeometry(a) ==
    /\ OutputWidth(a) >= 1
    /\ OutputHeight(a) >= 1
    /\ a.p.groups * a.batch_size
         * (RoundUp(OutputSize(a), a.q8.mr) \div a.q8.mr)
         * (RoundUp(a.p.group_output_channels, a.q8.nr) \div a.q8.nr) <= MaxTiles

Calls ==
    { a \in ScaleCalls \cup DispatchCalls \cup GeometryCalls \cup ChannelCalls :
        ValidGeometry(a) /\ SzIsNat(ZeroSize(a.p.group_input_channels, a.q8.kr)) }


(***************************************************************************)
(* State.                                                                  *)
(***************************************************************************)
VARIABLES
    arg,          \* the arguments of the call and pytorch_qnnp_params.q8conv
    pc,           \* position in qnnpackDeConv
    status,       \* the value returned, "none" until the call returns
    heap,         \* state of each allocation: "unalloc", "live" or "freed"
    released,     \* how many times each allocation was passed to free
    allocCalls,   \* calls of calloc, malloc and realloc made so far
    failed,       \* the allocation that failed, or "none"
    uniq,         \* what qnnpack_uniq_ptr owns
    op,           \* the fields of *deconvolution
    computed,     \* conv_quantization_params has been computed
    uaf,          \* *deconvolution was read after it had been freed
    zero_mem,     \* the bytes of the zero-padding allocation
    indirection,  \* the entries of the indirection buffer
    ctx,          \* q8conv_context
    poolCalls,    \* calls of pthreadpool_compute_4d_tiled
    tiles,        \* state of each tile of the dispatch
    invoked,      \* how many times compute_q8conv ran for each tile
    written       \* <<cell of the output buffer, tile that wrote it>>

vars ==
    << arg, pc, status, heap, released, allocCalls, failed, uniq, op, computed,
       uaf, zero_mem, indirection, ctx, poolCalls, tiles, invoked, written >>

NullEntry == [buf |-> "null", image |-> 0, y |-> 0, x |-> 0, group |-> 0]
ZeroEntry == [buf |-> "zero", image |-> 0, y |-> 0, x |-> 0, group |-> 0]
InputEntry(image, y, x, group) ==
    [buf |-> "input", image |-> image, y |-> y, x |-> x, group |-> group]

ZeroedParams ==
    [ scale |-> F_Zero(1), input_zero_point |-> 0, kernel_zero_point |-> 0,
      output_zero_point |-> 0, output_min |-> 0, output_max |-> 0 ]

\* calloc(1, sizeof(struct pytorch_qnnp_operator))
ZeroedOp ==
    [ zero_buffer |-> NULL, zero_pointer |-> NULL, indirection_buffer |-> NULL,
      input_padding_top |-> 0, input_padding_left |-> 0,
      input_padding_bottom |-> 0, input_padding_right |-> 0,
      adjustment_width |-> 0, adjustment_height |-> 0,
      kernel_width |-> 0, kernel_height |-> 0,
      stride_width |-> 0, stride_height |-> 0,
      dilation_width |-> 0, dilation_height |-> 0,
      groups |-> 0, group_input_channels |-> SzFromNat(0),
      group_output_channels |-> 0, kernel_zero_point |-> 0,
      conv_quantization_params |-> ZeroedParams,
      ukernel_type |-> "none", format |-> "none",
      batch_size |-> 0, input_height |-> 0, input_width |-> 0,
      output_height |-> 0, output_width |-> 0, output_pixel_stride |-> 0 ]

NoContext ==
    [ bs |-> 0, ks |-> 0, m |-> 0, m_stride |-> 0, n |-> 0, c_stride |-> 0 ]

Init ==
    /\ arg \in Calls
    /\ pc = "entry"
    /\ status = "none"
    /\ heap = [b \in Blocks |-> "unalloc"]
    /\ released = [b \in Blocks |-> 0]
    /\ allocCalls = 0
    /\ failed = "none"
    /\ uniq = NULL
    /\ op = ZeroedOp
    /\ computed = FALSE
    /\ uaf = FALSE
    /\ zero_mem = <<>>
    /\ indirection = <<>>
    /\ ctx = NoContext
    /\ poolCalls = 0
    /\ tiles = <<>>
    /\ invoked = <<>>
    /\ written = {}

(***************************************************************************)
(* pytorch_qnnp_delete_operator(o): frees the buffers the descriptor       *)
(* points at, then the descriptor.  A null descriptor is left alone.       *)
(***************************************************************************)
Owned(o) == {"op", o.zero_buffer, o.indirection_buffer} \ {NULL}

DeleteHeap(h, o) == [b \in Blocks |-> IF b \in Owned(o) THEN "freed" ELSE h[b]]

DeleteReleased(r, o) == [b \in Blocks |-> IF b \in Owned(o) THEN r[b] + 1 ELSE r[b]]

(***************************************************************************)
(* Lines 27-55: the batch test, then the two scale tests.                  *)
(***************************************************************************)
\* a batch test that never short-circuits
BatchIsEmptyNever(a) == FALSE

\* line 27
BatchIsEmpty(a) == a.batch_size = 0

CheckBatch ==
    /\ pc = "entry"
    /\ IF BatchIsEmpty(arg)
         THEN pc' = "done" /\ status' = "success"
         ELSE pc' = "check_input_scale" /\ status' = status
    /\ UNCHANGED << arg, heap, released, allocCalls, failed, uniq, op, computed,
                    uaf, zero_mem, indirection, ctx, poolCalls, tiles, invoked,
                    written >>

CheckInputScale ==
    /\ pc = "check_input_scale"
    /\ IF ScaleRejected(arg.input_scale)
         THEN pc' = "done" /\ status' = "invalid_parameter"
         ELSE pc' = "check_output_scale" /\ status' = status
    /\ UNCHANGED << arg, heap, released, allocCalls, failed, uniq, op, computed,
                    uaf, zero_mem, indirection, ctx, poolCalls, tiles, invoked,
                    written >>

CheckOutputScale ==
    /\ pc = "check_output_scale"
    /\ IF ScaleRejected(arg.output_scale)
         THEN pc' = "done" /\ status' = "invalid_parameter"
         ELSE pc' = "alloc_descriptor" /\ status' = status
    /\ UNCHANGED << arg, heap, released, allocCalls, failed, uniq, op, computed,
                    uaf, zero_mem, indirection, ctx, poolCalls, tiles, invoked,
                    written >>

(***************************************************************************)
(* Lines 67-78: the descriptor.                                            *)
(***************************************************************************)
AllocDescriptor ==
    /\ pc = "alloc_descriptor"
    /\ allocCalls' = allocCalls + 1
    /\ \E ok \in BOOLEAN :
         IF ok
           THEN /\ heap' = [heap EXCEPT !["op"] = "live"]
                /\ op' = ZeroedOp
                /\ uniq' = "op"
                /\ pc' = "alloc_zero"
                /\ UNCHANGED << status, failed >>
           ELSE \* pytorch_qnnp_delete_operator(nullptr) does nothing
                /\ failed' = "op"
                /\ status' = "out_of_memory"
                /\ pc' = "done"
                /\ UNCHANGED << heap, op, uniq >>
    /\ UNCHANGED << arg, released, computed, uaf, zero_mem, indirection, ctx,
                    poolCalls, tiles, invoked, written >>

(***************************************************************************)
(* Lines 81-97: the zero-padding buffer.                                   *)
(***************************************************************************)
AllocZero ==
    /\ pc = "alloc_zero"
    /\ allocCalls' = allocCalls + 1
    /\ \E ok \in BOOLEAN :
         IF ok
           THEN LET zero_size ==
                        SzToNat(ZeroSize(arg.p.group_input_channels, arg.q8.kr))
                IN  /\ heap' = [heap EXCEPT !["zero"] = "live"]
                    /\ zero_mem' = [i \in 0..(zero_size - 1) |-> arg.input_zero_point]
                    /\ op' = [op EXCEPT
                                !.zero_buffer = "zero",
                                !.zero_pointer = ZeroOffset(arg.p.group_input_channels)]
                    /\ pc' = "populate"
                    /\ UNCHANGED << status, failed, released >>
           ELSE \* line 91, then the return of line 92
                /\ failed' = "zero"
                /\ heap' = DeleteHeap(heap, op)
                /\ released' = DeleteReleased(released, op)
                /\ status' = "out_of_memory"
                /\ pc' = "unwind"
                /\ UNCHANGED << zero_mem, op >>
    /\ UNCHANGED << arg, uniq, computed, uaf, indirection, ctx, poolCalls, tiles,
                    invoked, written >>

(***************************************************************************)
(* Lines 99-116: geometry fields.                                          *)
(***************************************************************************)
Populate ==
    /\ pc = "populate"
    /\ op' = [op EXCEPT
                !.input_padding_top = arg.p.padding[1],
                !.input_padding_left = arg.p.padding[2],
                !.input_padding_bottom = arg.p.padding[3],
                !.input_padding_right = arg.p.padding[4],
                !.adjustment_width = arg.p.adjustment_dims[1],
                !.adjustment_height = arg.p.adjustment_dims[2],
                !.kernel_width = arg.p.kernel_dims[1],
                !.kernel_height = arg.p.kernel_dims[2],
                !.stride_width = arg.p.stride_dims[1],
                !.stride_height = arg.p.stride_dims[2],
                !.dilation_width = arg.p.dilation[1],
                !.dilation_height = arg.p.dilation[2],
                !.groups = arg.p.groups,
                !.group_input_channels = arg.p.group_input_channels,
                !.group_output_channels = arg.p.group_output_channels,
                !.kernel_zero_point = arg.p.kernel_zero_point]
    /\ pc' = "quantize"
    /\ UNCHANGED << arg, status, heap, released, allocCalls, failed, uniq,
                    computed, uaf, zero_mem, indirection, ctx, poolCalls, tiles,
                    invoked, written >>

(***************************************************************************)
(* Lines 117-126: the combined scale and the requantization parameters.    *)
(***************************************************************************)
\* line 118: input_scale * kernel_scale / output_scale, evaluated in float
DeconvolutionScale(a) ==
    FDiv(FMul(a.input_scale, a.p.kernel_scale), a.output_scale)

\* pytorch_qnnp_compute_conv_quantization_params: the parameters it is given
QuantizationParams(a) ==
    [ scale |-> DeconvolutionScale(a),
      input_zero_point |-> a.input_zero_point,
      kernel_zero_point |-> a.p.kernel_zero_point,
      output_zero_point |-> a.output_zero_point,
      output_min |-> a.p.output_min,
      output_max |-> a.p.output_max ]

\* the assignment also moving the zero pointer back to the allocation base
StoreQuantizationParamsClobber(o, a) ==
    [o EXCEPT !.conv_quantization_params = QuantizationParams(a),
              !.zero_pointer = 0]

\* lines 119-126: the assignment to deconvolution->conv_quantization_params
StoreQuantizationParams(o, a) ==
    [o EXCEPT !.conv_quantization_params = QuantizationParams(a)]

ComputeQuantization ==
    /\ pc = "quantize"
    /\ op' = StoreQuantizationParams(op, arg)
    /\ computed' = TRUE
    /\ pc' = "setup"
    /\ UNCHANGED << arg, status, heap, released, allocCalls, failed, uniq, uaf,
                    zero_mem, indirection, ctx, poolCalls, tiles, invoked,
                    written >>

(***************************************************************************)
(* Lines 128-152: kernel type and the sizes of this call.                  *)
(***************************************************************************)
Setup ==
    /\ pc = "setup"
    /\ op' = [op EXCEPT
                !.ukernel_type = "conv",
                !.format = "quint8",
                !.batch_size = arg.batch_size,
                !.input_height = arg.input_height,
                !.input_width = arg.input_width,
                !.output_height = OutputHeight(arg),
                !.output_width = OutputWidth(arg),
                !.output_pixel_stride = arg.p.output_channels]
    /\ pc' = "alloc_indirection"
    /\ UNCHANGED << arg, status, heap, released, allocCalls, failed, uniq,
                    computed, uaf, zero_mem, indirection, ctx, poolCalls, tiles,
                    invoked, written >>

(***************************************************************************)
(* Lines 154-163: the indirection buffer.  The memory realloc returns is   *)
(* uninitialized; a null pointer is among the values an entry may hold.    *)
(***************************************************************************)
AllocIndirection ==
    /\ pc = "alloc_indirection"
    /\ allocCalls' = allocCalls + 1
    /\ \E ok \in BOOLEAN :
         IF ok
           THEN /\ heap' = [heap EXCEPT !["indir"] = "live"]
                /\ indirection' = [i \in 0..(IndirectionEntries(arg) - 1) |-> NullEntry]
                /\ op' = [op EXCEPT !.indirection_buffer = "indir"]
                /\ pc' = "init_indirection"
                /\ UNCHANGED << status, failed, released >>
           ELSE \* line 160, then the return of line 161
                /\ failed' = "indir"
                /\ heap' = DeleteHeap(heap, op)
                /\ released' = DeleteReleased(released, op)
                /\ status' = "out_of_memory"
                /\ pc' = "unwind"
                /\ UNCHANGED << indirection, op >>
    /\ UNCHANGED << arg, uniq, computed, uaf, zero_mem, ctx, poolCalls, tiles,
                    invoked, written >>


(***************************************************************************)
(* Lines 165-166: pytorch_qnnp_indirection_init_deconv2d.  For every       *)
(* (group, image, tiled output position, kernel tap) it stores a pointer   *)
(* into the input or the zero pointer.  A tap reads the input only if its  *)
(* coordinate is a multiple of the stride and lies inside the input; rows  *)
(* added by the tile rounding read the zero pointer.                       *)
(***************************************************************************)
IndirectionIndex(o, tile, tiled, group, image, start, offset, ky, kx) ==
    (group * o.batch_size + image) * tiled * (o.kernel_height * o.kernel_width)
      + start * (o.kernel_height * o.kernel_width)
      + (ky * o.kernel_width + kx) * tile
      + offset

IndirectionValue(o, group, image, index, ky, kx) ==
    LET oy == index \div o.output_width
        ox == index % o.output_width
        y == oy + o.input_padding_top - ky * o.dilation_height
        x == ox + o.input_padding_left - kx * o.dilation_width
    IN  IF /\ index < o.output_height * o.output_width
           /\ y >= 0 /\ y % o.stride_height = 0
           /\ (y \div o.stride_height) < o.input_height
           /\ x >= 0 /\ x % o.stride_width = 0
           /\ (x \div o.stride_width) < o.input_width
          THEN InputEntry(image, y \div o.stride_height, x \div o.stride_width, group)
          ELSE ZeroEntry

IndirectionWrites(o, tile, tiled) ==
    { << IndirectionIndex(o, tile, tiled, g, b, st, off, ky, kx),
         IndirectionValue(o, g, b, st + off, ky, kx) >> :
        g \in 0..(o.groups - 1), b \in 0..(o.batch_size - 1),
        st \in {n \in 0..(tiled - 1) : n % tile = 0}, off \in 0..(tile - 1),
        ky \in 0..(o.kernel_height - 1), kx \in 0..(o.kernel_width - 1) }

IndirectionInit(buf, o, tile, tiled) ==
    LET w == IndirectionWrites(o, tile, tiled)
    IN  [ i \in DOMAIN buf |->
            IF \E e \in w : e[1] = i
              THEN (CHOOSE e \in w : e[1] = i)[2]
              ELSE buf[i] ]

InitIndirection ==
    /\ pc = "init_indirection"
    /\ indirection' = IndirectionInit(indirection, op, arg.q8.mr, TiledOutputSize(arg))
    /\ pc' = "dispatch"
    /\ UNCHANGED << arg, status, heap, released, allocCalls, failed, uniq, op,
                    computed, uaf, zero_mem, ctx, poolCalls, tiles, invoked,
                    written >>

(***************************************************************************)
(* Lines 169-198: q8conv_context and the call into the thread pool.        *)
(***************************************************************************)
\* the row stride taken from the channels of one group
CStridePerGroup(o) == o.group_output_channels

\* line 182: .c_stride = deconvolution->output_pixel_stride
CStride(o) == o.output_pixel_stride

\* lines 170-185
Q8ConvContext(a, o) ==
    [ bs |-> o.batch_size,
      ks |-> KernelSize(a),
      m |-> OutputSize(a),
      m_stride |-> RoundUp(OutputSize(a), a.q8.mr),
      n |-> a.p.group_output_channels,
      c_stride |-> CStride(o) ]

Dispatch ==
    /\ pc = "dispatch"
    /\ ctx' = Q8ConvContext(arg, op)
    /\ poolCalls' = poolCalls + 1
    /\ tiles' = [t \in Tiles4D(DispatchArgs(arg)) |-> "pending"]
    /\ invoked' = [t \in Tiles4D(DispatchArgs(arg)) |-> 0]
    /\ pc' = "pool"
    /\ UNCHANGED << arg, status, heap, released, allocCalls, failed, uniq, op,
                    computed, uaf, zero_mem, indirection, written >>

\* compute_q8conv: the cells of the output buffer the micro-kernel writes for
\* tile t, as offsets from c
TileCells(c, t) ==
    { (t.k + r + t.j * c.m) * c.c_stride + t.i * c.n + t.l + col :
        r \in 0..(t.tk - 1), col \in 0..(t.tl - 1) }

Running == {t \in DOMAIN tiles : tiles[t] = "running"}

\* a pool worker takes a tile that no worker has taken
TileStart(t) ==
    /\ pc = "pool"
    /\ tiles[t] = "pending"
    /\ Cardinality(Running) < NumWorkers
    /\ tiles' = [tiles EXCEPT ![t] = "running"]
    /\ invoked' = [invoked EXCEPT ![t] = @ + 1]
    /\ UNCHANGED << arg, pc, status, heap, released, allocCalls, failed, uniq,
                    op, computed, uaf, zero_mem, indirection, ctx, poolCalls,
                    written >>

\* the micro-kernel of a tile returns, its cells written
TileFinish(t) ==
    /\ pc = "pool"
    /\ tiles[t] = "running"
    /\ tiles' = [tiles EXCEPT ![t] = "done"]
    /\ written' = written \cup {<<cell, t>> : cell \in TileCells(ctx, t)}
    /\ UNCHANGED << arg, pc, status, heap, released, allocCalls, failed, uniq,
                    op, computed, uaf, zero_mem, indirection, ctx, poolCalls,
                    invoked >>

\* pthreadpool_compute_4d_tiled returns once every tile is done; line 199
PoolJoin ==
    /\ pc = "pool"
    /\ \A t \in DOMAIN tiles : tiles[t] = "done"
    /\ status' = "success"
    /\ pc' = "unwind"
    /\ UNCHANGED << arg, heap, released, allocCalls, failed, uniq, op, computed,
                    uaf, zero_mem, indirection, ctx, poolCalls, tiles, invoked,
                    written >>

(***************************************************************************)
(* The return statements after line 78: qnnpack_uniq_ptr goes out of scope *)
(* and QnnpackDeleter passes the descriptor to                             *)
(* pytorch_qnnp_delete_operator.  When line 91 or 160 has already freed    *)
(* the descriptor this reads freed memory and frees it again, which is     *)
(* undefined: the allocator aborts the process, or the call goes on to     *)
(* return.                                                                 *)
(***************************************************************************)
Unwind ==
    /\ pc = "unwind"
    /\ uniq = "op"
    /\ released' = DeleteReleased(released, op)
    /\ heap' = DeleteHeap(heap, op)
    /\ uniq' = NULL
    /\ IF heap["op"] = "live"
         THEN pc' = "done" /\ UNCHANGED << uaf, status >>
         ELSE /\ uaf' = TRUE
              /\ \E outcome \in {"abort", "return"} :
                   IF outcome = "abort"
                     THEN pc' = "crashed" /\ status' = "none"
                     ELSE pc' = "done" /\ status' = status
    /\ UNCHANGED << arg, allocCalls, failed, op, computed, zero_mem, indirection,
                    ctx, poolCalls, tiles, invoked, written >>

Next ==
    \/ CheckBatch
    \/ CheckInputScale
    \/ CheckOutputScale
    \/ AllocDescriptor
    \/ AllocZero
    \/ Populate
    \/ ComputeQuantization
    \/ Setup
    \/ AllocIndirection
    \/ InitIndirection
    \/ Dispatch
    \/ \E t \in DOMAIN tiles : TileStart(t)
    \/ \E t \in DOMAIN tiles : TileFinish(t)
    \/ PoolJoin
    \/ Unwind

Spec == Init /\ [][Next]_vars


(***************************************************************************)
(* Properties.                                                             *)
(***************************************************************************)
\* a scale that is <= 0, not finite, or subnormal
UnusableScale(x) ==
    \/ x.k \in {"nan", "inf", "zero"}
    \/ x.s = -1
    \/ x.k = "pow" /\ x.e < -126

\* a finite scale above zero
FinitePositive(x) == x.k = "pow" /\ x.s = 1

BadScales == UnusableScale(arg.input_scale) \/ UnusableScale(arg.output_scale)

NothingAllocated == allocCalls = 0 /\ \A b \in Blocks : heap[b] = "unalloc"

\* C1, as stated: for every call, whatever the batch size, an input or output
\* scale that is <= 0, non-finite or subnormal makes the call return
\* invalid_parameter, and no allocation is made.
C1_AnyBatch ==
    BadScales =>
        /\ NothingAllocated
        /\ pc = "done" => status = "invalid_parameter"

\* C1, amended: for every call with batch_size > 0, an input or output scale
\* that is <= 0, non-finite or subnormal makes the call return
\* invalid_parameter, and no allocation is made.
C1_PositiveBatch ==
    (arg.batch_size > 0 /\ BadScales) =>
        /\ NothingAllocated
        /\ pc \in {"entry", "check_input_scale", "check_output_scale", "done"}
        /\ pc = "done" => status = "invalid_parameter"

C1_Witness ==
    /\ arg.batch_size > 0
    /\ arg.input_scale = F_One
    /\ arg.output_scale = F_Pow(1, -149)
    /\ pc = "done"
    /\ status = "invalid_parameter"

\* C2: with batch_size = 0 the call returns success; it allocates neither the
\* descriptor nor a buffer, writes no byte of the output buffer and never
\* calls the thread pool.
C2_EmptyBatch ==
    arg.batch_size = 0 =>
        /\ NothingAllocated
        /\ written = {}
        /\ poolCalls = 0
        /\ pc \in {"entry", "done"}
        /\ pc = "done" => status = "success"

C2_Witness ==
    /\ arg.batch_size = 0
    /\ UnusableScale(arg.input_scale)
    /\ pc = "done"
    /\ status = "success"

\* C3: when one of the three allocations fails the call returns
\* out_of_memory, and when it ends nothing it allocated is still allocated,
\* the thread pool was not called and the output buffer was not written.
C3_FailedAllocation ==
    (failed # "none" /\ pc \in {"done", "crashed"}) =>
        /\ status = "out_of_memory"
        /\ \A b \in Blocks : heap[b] # "live"
        /\ poolCalls = 0
        /\ written = {}

\* C4: a combined scale that is not finite and positive is rejected before
\* any allocation, and no descriptor holds requantization parameters derived
\* from such a scale.
C4_CombinedScale ==
    /\ ~FinitePositive(DeconvolutionScale(arg)) => NothingAllocated
    /\ computed => FinitePositive(op.conv_quantization_params.scale)

Space(a) ==
    (0..(a.p.groups - 1)) \X (0..(a.batch_size - 1))
      \X (0..(OutputSize(a) - 1)) \X (0..(a.p.group_output_channels - 1))

Covers(t, pt) ==
    /\ t.i = pt[1]
    /\ t.j = pt[2]
    /\ t.k <= pt[3] /\ pt[3] < t.k + t.tk
    /\ t.l <= pt[4] /\ pt[4] < t.l + t.tl

\* the point whose byte is cell number `cell` of the output buffer
PointOf(a, cell) ==
    LET pixel == cell \div a.p.output_channels
        chan == cell % a.p.output_channels
    IN  << chan \div a.p.group_output_channels, pixel \div OutputSize(a),
           pixel % OutputSize(a), chan % a.p.group_output_channels >>

Points(t) ==
    { <<t.i, t.j, p, c>> :
        p \in t.k..(t.k + t.tk - 1), c \in t.l..(t.l + t.tl - 1) }

Apart(t1, t2) ==
    \/ t1.i # t2.i
    \/ t1.j # t2.j
    \/ t1.k + t1.tk <= t2.k \/ t2.k + t2.tk <= t1.k
    \/ t1.l + t1.tl <= t2.l \/ t2.l + t2.tl <= t1.l

\* C6: the tiles of the dispatch partition the space (groups, batch_size,
\* output_size, group_output_channels) into tiles of at most (1, 1, mr, nr);
\* under every interleaving each tile is invoked exactly once, and no two
\* tiles write the same cell of the output buffer.
C6_TilesPartition ==
    poolCalls > 0 =>
        /\ UNION {Points(t) : t \in DOMAIN tiles} = Space(arg)
        /\ \A t1 \in DOMAIN tiles : \A t2 \in DOMAIN tiles :
             t1 # t2 => Apart(t1, t2)
        /\ \A t \in DOMAIN tiles :
             /\ t.ti = 1 /\ t.tj = 1
             /\ 1 <= t.tk /\ t.tk <= arg.q8.mr
             /\ 1 <= t.tl /\ t.tl <= arg.q8.nr
             /\ invoked[t] = IF tiles[t] = "pending" THEN 0 ELSE 1
        /\ status = "success" => \A t \in DOMAIN tiles : invoked[t] = 1
        /\ \A w \in written :
             /\ w[1] < Cardinality(Space(arg))
             /\ Covers(w[2], PointOf(arg, w[1]))
        /\ Cardinality({w[1] : w \in written}) = Cardinality(written)

C6_Witness ==
    /\ pc = "done"
    /\ status = "success"
    /\ arg.p.groups = 2
    /\ \E t \in DOMAIN tiles : t.k > 0 /\ t.tk < arg.q8.mr
    /\ Cardinality(DOMAIN tiles) >= 4
    /\ Cardinality({w[1] : w \in written}) = Cardinality(Space(arg))

\* the first positions of the tiles of the space along one axis
TileStarts(range, tile) == {x \in 0..(range - 1) : x % tile = 0}

TilesDone ==
    \A g \in 0..(arg.p.groups - 1) : \A b \in 0..(arg.batch_size - 1) :
      \A k \in TileStarts(OutputSize(arg), arg.q8.mr) :
        \A l \in TileStarts(arg.p.group_output_channels, arg.q8.nr) :
          \E t \in DOMAIN tiles :
            t.i = g /\ t.j = b /\ t.k = k /\ t.l = l /\ tiles[t] = "done"

\* C7: the call returns success only after every tile has completed, and the
\* descriptor and its buffers are not released while a tile is pending or
\* running.
C7_ReturnAfterTiles ==
    /\ (status = "success" /\ arg.batch_size > 0) =>
           (TilesDone /\ \A t \in DOMAIN tiles : tiles[t] = "done")
    /\ (\E t \in DOMAIN tiles : tiles[t] # "done") =>
           \A b \in Blocks : heap[b] = "live"

C7_Witness ==
    /\ pc = "done"
    /\ status = "success"
    /\ arg.batch_size = 2
    /\ Cardinality(DOMAIN tiles) >= 3
    /\ \A b \in Blocks : heap[b] = "freed" /\ released[b] = 1

\* the least multiple of q that is >= n
LeastMultiple(n, q) == CHOOSE r \in n..(n + q - 1) : r % q = 0

\* C8: from the first call of the thread pool on, the indirection buffer has
\* batch_size * groups * tiled_output_size * kernel_height * kernel_width
\* entries, each pointing into the input or at the zero pointer, and no
\* entry is written once the dispatch has begun.
C8_IndirectionComplete ==
    /\ []((pc = "dispatch" \/ poolCalls > 0) =>
            /\ DOMAIN indirection =
                 0..(arg.batch_size * arg.p.groups
                       * LeastMultiple(OutputSize(arg), arg.q8.mr)
                       * arg.p.kernel_dims[2] * arg.p.kernel_dims[1] - 1)
            /\ \A i \in DOMAIN indirection :
                 \/ indirection[i].buf = "zero"
                 \/ /\ indirection[i].buf = "input"
                    /\ indirection[i].image < arg.batch_size
                    /\ indirection[i].group < arg.p.groups
                    /\ indirection[i].y < arg.input_height
                    /\ indirection[i].x < arg.input_width)
    /\ [][poolCalls > 0 => indirection' = indirection]_vars

C8_Witness ==
    /\ pc = "pool"
    /\ TiledOutputSize(arg) > OutputSize(arg)
    /\ KernelSize(arg) = 4
    /\ \E i \in DOMAIN indirection : indirection[i].buf = "zero"
    /\ \E i \in DOMAIN indirection :
         indirection[i].buf = "input" /\ indirection[i].x = 1 /\ indirection[i].y = 1

SzLeq(a, b) ==
    \/ a = b
    \/ \E i \in 1..4 : a[i] < b[i] /\ \A j \in (i + 1)..4 : a[j] = b[j]

\* gic rounded up to a multiple of kr, a power of two below 2^16
SzRoundedUp(gic, kr) ==
    SzAdd(gic, SzFromNat(CHOOSE d \in 0..(kr - 1) : (gic[1] + d) % kr = 0))

GuardBytes(gic) == IF SzLessNat(gic, 8) THEN 8 ELSE 0

ZeroBufferAsClaimed(gic, kr) ==
    /\ SzFromNat(Cardinality(DOMAIN zero_mem)) =
         SzAdd(SzRoundedUp(gic, kr), SzFromNat(GuardBytes(gic)))
    /\ op.zero_pointer = GuardBytes(gic)
    /\ SzLeq(SzAdd(SzFromNat(op.zero_pointer), SzRoundedUp(gic, kr)),
             SzFromNat(Cardinality(DOMAIN zero_mem)))
    /\ Cardinality(DOMAIN zero_mem) >= 8
    /\ \A i \in DOMAIN zero_mem : zero_mem[i] = arg.input_zero_point

\* C9: for every group_input_channels >= 1 the zero-padding allocation has
\* group_input_channels rounded up to a multiple of kr bytes, plus 8 when
\* group_input_channels < 8; the zero pointer is the base plus 8 in that case
\* and the base otherwise; k_stride bytes from the zero pointer lie inside
\* the allocation; the allocation has at least 8 bytes; every byte is
\* input_zero_point.
C9_ZeroBuffer ==
    op.zero_buffer # NULL =>
        ZeroBufferAsClaimed(arg.p.group_input_channels, arg.q8.kr)

\* the same, for channel counts with group_input_channels + kr - 1 < 2^32
C9_ZeroBufferBelow32Bits ==
    (op.zero_buffer # NULL /\ SzIsNat(arg.p.group_input_channels)) =>
        ZeroBufferAsClaimed(arg.p.group_input_channels, arg.q8.kr)

\* C10: on every path of one call the descriptor and each buffer it owns are
\* released at most once, and a released descriptor is not accessed.
C10_ReleasedOnce ==
    /\ \A b \in Blocks : released[b] <= 1
    /\ ~uaf

====
